---- MODULE Spec2Model ----
(***************************************************************************)
(* A model of the storefront backend in src/server.py: the product         *)
(* catalog, the per-visitor cart, the order ("customers") table and the    *)
(* checkout handler that turns a cart into order rows.                      *)
(*                                                                         *)
(* All handlers share ONE sqlite3 connection (get_db).  The connection is  *)
(* opened with Python's default isolation level, so the first INSERT /     *)
(* UPDATE / DELETE opens a transaction that stays open until somebody      *)
(* calls commit() on the connection.  The model therefore keeps two copies *)
(* of the database: db, what every statement on the shared connection      *)
(* sees (committed rows plus the open transaction), and committed, what    *)
(* the last commit() made durable.                                          *)
(*                                                                         *)
(* checkout_order is modelled statement by statement (read, one step per   *)
(* INSERT, DELETE+commit, notify+return), so that other requests served by *)
(* other threads interleave with it.  The single-statement handlers are    *)
(* one action each: their statement and their commit follow each other     *)
(* with no code in between.                                                 *)
(*                                                                         *)
(* Store errors (sqlite3.Error) are injected at the statements of          *)
(* checkout_order only; a statement that raises has no effect of its own,  *)
(* and SQLite either leaves the transaction open or rolls it back.  The    *)
(* handlers never call rollback().                                          *)
(*                                                                         *)
(* Numbers are integers (price 250.0 is 250); the columns addition and     *)
(* date of customers, which are copied and never read, are left out, and   *)
(* so are the handlers that only read (list_products, list_orders) and     *)
(* DELETE /api/orders/<id>.  Order rows carry one history field, line: the *)
(* cart line a checkout made the row from (0 for create_order).            *)
(***************************************************************************)
EXTENDS Integers, Sequences, FiniteSets, TLC

\* ------------------------------------------------------------------ bounds
MaxCartLines == 2   \* cart lines ever inserted
MaxOrders    == 3   \* order rows ever inserted
MaxProducts  == 2   \* products ever inserted
MaxFaults    == 1   \* store errors the environment injects
NumWorkers   == 2   \* request threads that run checkout_order concurrently
MaxRequests  == 4   \* requests served

Workers == 1..NumWorkers

\* ------------------------------------------------------- request values
\* A JSON value where the code expects a number: absent/null, a number (or
\* a string of digits, which int()/float() read the same way), or a string
\* that is no number ("abc").
NullV  == [k |-> "null", v |-> 0]
TextV  == [k |-> "text", v |-> 0]
Num(n) == [k |-> "num", v |-> n]

\* Python truthiness of such a value: None and 0 are falsy.
Truthy(x) == x.k = "text" \/ (x.k = "num" /\ x.v # 0)
\* `x or 0`
OrZero(x) == IF Truthy(x) THEN x ELSE Num(0)
\* float(x) / int(x) return rather than raise ValueError
IsNumeric(x) == x.k = "num"

Max(a, b) == IF a >= b THEN a ELSE b

\* The cart_id cookie: two browsers, or no cookie at all.
Carts    == {"A", "B"}
NoCookie == "none"
CookieInputs == Carts \cup {NoCookie}

\* `data.get(key) or ''` on a JSON body whose values are strings
OrStr(data, key) == IF key \in DOMAIN data /\ data[key] # "" THEN data[key] ELSE ""

BuyerKeys  == {"name", "phone", "gov", "city", "address"}
ValidBuyer == [name |-> "Ann", phone |-> "010", gov |-> "Cairo", city |-> "Giza", address |-> "1 St"]
\* Bodies sent to checkout: complete; one field absent (name, gov or
\* address); one field empty (phone or city); no field at all; the name a
\* string of blanks.
BuyerInputs ==
    {ValidBuyer}
      \cup {[f \in BuyerKeys \ {g} |-> ValidBuyer[f]] : g \in {"name", "gov", "address"}}
      \cup {[ValidBuyer EXCEPT ![g] = ""] : g \in {"phone", "city"}}
      \cup {[f \in {} |-> ""]}
      \cup {[ValidBuyer EXCEPT !.name = " "]}

ShipInputs  == {Num(30), TextV}
QtyInputs   == {NullV, TextV, Num(0), Num(-1), Num(1), Num(2)}
PriceInputs == {NullV, Num(250), TextV}
NameInputs  == {"", "shirt"}            \* "" stands for an absent name
PidInputs   == 0..MaxProducts           \* 0 stands for an absent product_id
LineIds     == 1..MaxCartLines
VariantInputs == {[size |-> "M", color |-> ""]}

\* ------------------------------------------------------------ the store
VARIABLES
    db,          \* the tables as seen through the shared connection
    committed,   \* the tables as of the last commit()
    wk,          \* per worker thread: where its checkout_order call stands
    resp,        \* the last response sent, by any handler
    sinceClear,  \* history: identities checked out with no add_to_cart since
    faults,      \* store errors injected so far
    reqs         \* requests received so far

vars == <<db, committed, wk, resp, sinceClear, faults, reqs>>

\* A request arrives.
Arrive == reqs < MaxRequests /\ reqs' = reqs + 1

\* The rows of a table in ascending id, as ORDER BY id ASC returns them.
RECURSIVE SortById(_)
SortById(S) ==
    IF S = {} THEN <<>>
    ELSE LET m == CHOOSE x \in S : \A y \in S : x.id <= y.id
         IN  <<m>> \o SortById(S \ {m})

RECURSIVE SumSeq(_)
SumSeq(s) == IF s = <<>> THEN 0 ELSE Head(s) + SumSeq(Tail(s))

\* The catalog a deployed shop starts from: one product, created earlier.
InitDb ==
    [products |-> {[id |-> 1, name |-> "shirt", price |-> Num(250)]},
     cart |-> {}, customers |-> {},
     seqProd |-> 1, seqCart |-> 0, seqOrder |-> 0]

\* A worker thread that is not inside checkout_order.
Idle == [pc |-> "idle", cart |-> NoCookie, buyer |-> ValidBuyer, shipping |-> Num(0),
         items |-> <<>>, created |-> <<>>]

NoNote == [count |-> 0, total |-> 0, sent |-> FALSE]
\* jsonify(...), status: the operation, the HTTP status, the ids in the body,
\* the error text, for a checkout the cookie it came with, and what checkout
\* handed to send_discord.
Reply(op, status, ids) ==
    [op |-> op, status |-> status, ids |-> ids, error |-> "", cart |-> NoCookie,
     note |-> NoNote]
Error(op, status, msg) ==
    [op |-> op, status |-> status, ids |-> <<>>, error |-> msg, cart |-> NoCookie,
     note |-> NoNote]
CheckoutError(c, status, msg) == [Error("checkout", status, msg) EXCEPT !.cart = c]

Init ==
    /\ db = InitDb
    /\ committed = InitDb
    /\ wk = [w \in Workers |-> Idle]
    /\ resp = Reply("none", 0, <<>>)
    /\ sinceClear = {}
    /\ faults = 0
    /\ reqs = 0

Commit(d) == d      \* conn.commit(): the open transaction becomes the durable state

\* ------------------------------------------------------- checkout_order
\* Mutant: the test forgets the address.
BuyerValidNoAddress(data) == \A f \in BuyerKeys \ {"address"} : OrStr(data, f) # ""

\* `if not (name and phone and gov and city and address)`
BuyerValid(data) == \A f \in BuyerKeys : OrStr(data, f) # ""

\* SELECT cart_items.*, products.name, products.price FROM cart_items JOIN
\* products ON products.id = cart_items.product_id WHERE cart_id = c
\* ORDER BY cart_items.id ASC
JoinedRow(l, name, price) ==
    [id |-> l.id, cart_id |-> l.cart_id, product_id |-> l.product_id,
     size |-> l.size, color |-> l.color, quantity |-> l.quantity,
     product_name |-> name, product_price |-> price]

\* Mutant: ORDER BY cart_items.id DESC, as get_cart sorts.
JoinedItemsNewestFirst(d, c) ==
    LET asc == SortById({ JoinedRow(x[1], x[2].name, x[2].price)
                          : x \in { y \in d.cart \X d.products :
                                       y[1].cart_id = c /\ y[2].id = y[1].product_id } })
    IN  [i \in 1..Len(asc) |-> asc[Len(asc) + 1 - i]]

\* Mutant: LEFT JOIN, which keeps the lines whose product is gone.
JoinedItemsLeftJoin(d, c) ==
    SortById({ JoinedRow(x[1], x[2].name, x[2].price)
               : x \in { y \in d.cart \X d.products :
                            y[1].cart_id = c /\ y[2].id = y[1].product_id } }
             \cup { JoinedRow(l, "", NullV)
                    : l \in { m \in d.cart : m.cart_id = c
                                 /\ \A q \in d.products : q.id # m.product_id } })

\* Mutant: the SELECT has no WHERE cart_items.cart_id = ?.
JoinedItemsAnyCart(d, c) ==
    SortById({ JoinedRow(x[1], x[2].name, x[2].price)
               : x \in { y \in d.cart \X d.products : y[2].id = y[1].product_id } })

JoinedItems(d, c) ==
    SortById({ JoinedRow(x[1], x[2].name, x[2].price)
               : x \in { y \in d.cart \X d.products :
                            y[1].cart_id = c /\ y[2].id = y[1].product_id } })

\* qty = int(it['quantity'] or 1); the row stores max(qty, 1)
LineAmount(it) == Max(IF it.quantity = 0 THEN 1 ELSE it.quantity, 1)

\* Mutant: the shipping cost is left out of the line total.
LineTotalNoShipping(unit_price, amount, ship) == unit_price * amount

\* line_total = unit_price * max(qty, 1) + float(shipping or 0)
LineTotal(unit_price, amount, ship) == unit_price * amount + ship

\* float(it['product_price'] or 0) and float(shipping or 0) both return
LineComputes(it, shipping) == IsNumeric(OrZero(it.product_price)) /\ IsNumeric(shipping)

\* The row one INSERT INTO customers of the loop writes.  line is history:
\* the cart line the row was made from (the table has no such column).
CheckoutRow(id, it, buyer, shipping) ==
    LET unit_price == OrZero(it.product_price).v
        amount     == LineAmount(it)
    IN  [id |-> id, product |-> it.product_name, color |-> it.color, size |-> it.size,
         amount |-> amount,
         name |-> buyer.name, phone |-> buyer.phone, gov |-> buyer.gov,
         city |-> buyer.city, address |-> buyer.address,
         price |-> Num(unit_price), shipping |-> Num(shipping.v),
         total |-> Num(LineTotal(unit_price, amount, shipping.v)),
         line |-> it.id]

\* Mutant: the DELETE is missing.
ClearCartSkipped(cart, c) == cart

\* DELETE FROM cart_items WHERE cart_id = c
ClearCart(cart, c) == {l \in cart : l.cart_id # c}

\* Mutant: the summary adds the shipping cost once per line.
NoteOfShippingPerLine(items, shipping) ==
    [count |-> SumSeq([i \in 1..Len(items) |-> LineAmount(items[i])]),
     total |-> SumSeq([i \in 1..Len(items) |->
                          OrZero(items[i].product_price).v * LineAmount(items[i])
                            + shipping.v])]

\* total_sum and count of the notification message
NoteOf(items, shipping) ==
    [count |-> SumSeq([i \in 1..Len(items) |-> LineAmount(items[i])]),
     total |-> SumSeq([i \in 1..Len(items) |->
                          OrZero(items[i].product_price).v * LineAmount(items[i])])
               + shipping.v]

\* The server hands a request to a free thread; the threads are alike, so
\* the model takes the free one with the least number.
FreeWorker(w) == wk[w].pc = "idle" /\ \A v \in Workers : wk[v].pc = "idle" => w <= v

\* Lines 497-530: parse the body, validate, read the cart.
checkout_start(w, c, data, ship) ==
    /\ FreeWorker(w)
    /\ Arrive
    /\ IF ~BuyerValid(data)
       THEN /\ resp' = CheckoutError(c, 400, "Missing required fields")
            /\ wk' = wk
       ELSE IF c = NoCookie
       THEN /\ resp' = CheckoutError(c, 400, "No cart")
            /\ wk' = wk
       ELSE LET items == JoinedItems(db, c)
            IN  IF items = <<>>
                THEN /\ resp' = CheckoutError(c, 400, "Cart is empty")
                     /\ wk' = wk
                ELSE /\ wk' = [wk EXCEPT ![w] =
                                 [pc |-> "insert", cart |-> c,
                                  buyer |-> [f \in BuyerKeys |-> OrStr(data, f)],
                                  shipping |-> OrZero(ship),
                                  items |-> items, created |-> <<>>]]
                     /\ resp' = resp
    /\ UNCHANGED <<db, committed, sinceClear, faults>>

\* Lines 533-559: one turn of the loop.  A price or a shipping that float()
\* rejects raises ValueError, which line 580 turns into a 500 with no
\* rollback; otherwise the row is inserted in the open transaction.
checkout_insert(w) ==
    LET me == wk[w]
        it == me.items[Len(me.created) + 1]
        id == db.seqOrder + 1
    IN  /\ me.pc = "insert"
        /\ IF ~LineComputes(it, me.shipping)
           THEN /\ wk' = [wk EXCEPT ![w] = Idle]
                /\ resp' = CheckoutError(me.cart, 500, "ValueError")
                /\ db' = db
           ELSE /\ db.seqOrder < MaxOrders
                /\ db' = [db EXCEPT !.customers = @ \cup {CheckoutRow(id, it, me.buyer, me.shipping)},
                                    !.seqOrder = id]
                /\ wk' = [wk EXCEPT ![w].created = Append(@, id),
                                    ![w].pc = IF Len(me.created) + 1 = Len(me.items)
                                              THEN "clear" ELSE "insert"]
                /\ resp' = resp
        /\ UNCHANGED <<committed, sinceClear, faults, reqs>>

\* What a statement that raises sqlite3.Error leaves behind: the statement
\* itself has no effect; SQLite either keeps the transaction open or, for
\* errors such as SQLITE_FULL or SQLITE_IOERR, rolls it back by itself.
AfterStoreError(d, c, rolledBack) == IF rolledBack THEN c ELSE d

\* A store error at one of the INSERTs (line 537), caught at line 580.
checkout_insert_fails(w, rolledBack) ==
    /\ wk[w].pc = "insert"
    /\ faults < MaxFaults
    /\ faults' = faults + 1
    /\ db' = AfterStoreError(db, committed, rolledBack)
    /\ wk' = [wk EXCEPT ![w] = Idle]
    /\ resp' = CheckoutError(wk[w].cart, 500, "StoreError")
    /\ UNCHANGED <<committed, sinceClear, reqs>>

\* Mutant: the clear deletes exactly the lines the call read.
checkout_clear_read(w) ==
    /\ wk[w].pc = "clear"
    /\ db' = [db EXCEPT !.cart = {l \in @ : \A i \in 1..Len(wk[w].items) :
                                              wk[w].items[i].id # l.id}]
    /\ committed' = db'
    /\ wk' = [wk EXCEPT ![w].pc = "notify"]
    /\ sinceClear' = sinceClear \cup {wk[w].cart}
    /\ UNCHANGED <<resp, faults, reqs>>

\* Lines 562-563: clear the cart and commit.
checkout_clear(w) ==
    /\ wk[w].pc = "clear"
    /\ db' = [db EXCEPT !.cart = ClearCart(@, wk[w].cart)]
    /\ committed' = Commit(db')
    /\ wk' = [wk EXCEPT ![w].pc = "notify"]
    /\ sinceClear' = sinceClear \cup {wk[w].cart}
    /\ UNCHANGED <<resp, faults, reqs>>

\* A store error at the DELETE (line 562), caught at line 580.
checkout_clear_fails(w, rolledBack) ==
    /\ wk[w].pc = "clear"
    /\ faults < MaxFaults
    /\ faults' = faults + 1
    /\ db' = AfterStoreError(db, committed, rolledBack)
    /\ wk' = [wk EXCEPT ![w] = Idle]
    /\ resp' = CheckoutError(wk[w].cart, 500, "StoreError")
    /\ UNCHANGED <<committed, sinceClear, reqs>>

\* Mutant: a notification that was not delivered fails the call.
checkout_respond_propagates(w, sent) ==
    /\ wk[w].pc = "notify"
    /\ resp' = IF sent
               THEN [Reply("checkout", 200, wk[w].created) EXCEPT
                        !.cart = wk[w].cart,
                        !.note = [count |-> NoteOf(wk[w].items, wk[w].shipping).count,
                                  total |-> NoteOf(wk[w].items, wk[w].shipping).total,
                                  sent |-> sent]]
               ELSE CheckoutError(wk[w].cart, 500, "NotifyError")
    /\ wk' = [wk EXCEPT ![w] = Idle]
    /\ UNCHANGED <<db, committed, sinceClear, faults, reqs>>

\* Lines 564-579: send the notification (its outcome is swallowed) and answer.
checkout_respond(w, sent) ==
    /\ wk[w].pc = "notify"
    /\ resp' = [Reply("checkout", 200, wk[w].created) EXCEPT
                   !.cart = wk[w].cart,
                   !.note = [count |-> NoteOf(wk[w].items, wk[w].shipping).count,
                             total |-> NoteOf(wk[w].items, wk[w].shipping).total,
                             sent |-> sent]]
    /\ wk' = [wk EXCEPT ![w] = Idle]
    /\ UNCHANGED <<db, committed, sinceClear, faults, reqs>>

\* ------------------------------------------------------------- cart API
\* Mutant: the `if qty <= 0: qty = 1` is missing.
AddQtyNoFloor(q) == IF q.k = "num" /\ q.v >= 0 THEN q.v ELSE 1

\* Lines 363-368: int(quantity) when str(quantity).isdigit(), else 1; a
\* result <= 0 becomes 1.  Only a non-negative number has an all-digit text.
AddQty(q) ==
    LET n == IF q.k = "num" /\ q.v >= 0 THEN q.v ELSE 1
    IN  IF n <= 0 THEN 1 ELSE n

CartRow(id, c, pid, variant, q) ==
    [id |-> id, cart_id |-> c, product_id |-> pid,
     size |-> variant.size, color |-> variant.color, quantity |-> AddQty(q)]

\* POST /api/cart.  Without a cookie the INSERT violates cart_id NOT NULL
\* and the handler answers 500 without committing.
add_to_cart(c, pid, variant, q) ==
    /\ Arrive
    /\ IF pid = 0
       THEN /\ resp' = Error("add", 400, "product_id required")
            /\ UNCHANGED <<db, committed, sinceClear>>
       ELSE IF c = NoCookie
       THEN /\ resp' = Error("add", 500, "IntegrityError")
            /\ UNCHANGED <<db, committed, sinceClear>>
       ELSE /\ db.seqCart < MaxCartLines
            /\ db' = [db EXCEPT !.cart = @ \cup {CartRow(db.seqCart + 1, c, pid, variant, q)},
                                !.seqCart = @ + 1]
            /\ committed' = Commit(db')
            /\ resp' = Reply("add", 201, <<db.seqCart + 1>>)
            /\ sinceClear' = sinceClear \ {c}
    /\ UNCHANGED <<wk, faults>>

\* Mutant: `WHERE id = ?`, without the owner test.
OwnedLinesAnyCart(cart, c, id) == {l \in cart : l.id = id}

\* The rows `WHERE id = ? AND cart_id = ?` selects
OwnedLines(cart, c, id) == {l \in cart : l.id = id /\ l.cart_id = c}

\* DELETE /api/cart/<id>: the commit comes before the rowcount test.
delete_cart_item(c, id) ==
    /\ Arrive
    /\ db' = [db EXCEPT !.cart = @ \ OwnedLines(@, c, id)]
    /\ committed' = Commit(db')
    /\ resp' = IF OwnedLines(db.cart, c, id) = {} THEN Error("delete", 404, "Not found")
                ELSE Reply("delete", 200, <<>>)
    /\ UNCHANGED <<wk, sinceClear, faults>>

\* UPDATE cart_items SET quantity = n WHERE id = ? AND cart_id = ?
SetQuantity(cart, c, id, n) ==
    {IF l \in OwnedLines(cart, c, id) THEN [l EXCEPT !.quantity = n] ELSE l : l \in cart}

\* Mutant: a quantity <= 0 is stored by the UPDATE, the line is not deleted.
update_cart_item_stores(c, id, q) ==
    /\ Arrive
    /\ IF ~IsNumeric(q)
       THEN /\ resp' = Error("update", 400, "quantity")
            /\ UNCHANGED <<db, committed>>
       ELSE /\ db' = [db EXCEPT !.cart = SetQuantity(@, c, id, Max(q.v, 1))]
            /\ committed' = Commit(db')
            /\ resp' = IF OwnedLines(db.cart, c, id) = {} THEN Error("update", 404, "Not found")
                        ELSE Reply("update", 200, <<>>)
    /\ UNCHANGED <<wk, sinceClear, faults>>

\* PATCH /api/cart/<id>
update_cart_item(c, id, q) ==
    /\ Arrive
    /\ IF ~IsNumeric(q)
       THEN /\ resp' = Error("update", 400, "quantity")
            /\ UNCHANGED <<db, committed>>
       ELSE /\ db' = [db EXCEPT !.cart = IF q.v <= 0 THEN @ \ OwnedLines(@, c, id)
                                         ELSE SetQuantity(@, c, id, q.v)]
            /\ committed' = Commit(db')
            /\ resp' = IF OwnedLines(db.cart, c, id) = {} THEN Error("update", 404, "Not found")
                        ELSE Reply("update", 200, <<>>)
    /\ UNCHANGED <<wk, sinceClear, faults>>

\* GET /api/cart: the joined view, newest line first.
get_cart(d, c) ==
    LET asc == JoinedItems(d, c)
    IN  [i \in 1..Len(asc) |-> asc[Len(asc) + 1 - i]]

\* ---------------------------------------------------------- products API
\* POST /api/products
create_product(name, price) ==
    /\ Arrive
    /\ IF name = "" \/ price = NullV
       THEN /\ resp' = Error("create_product", 400, "name and price required")
            /\ UNCHANGED <<db, committed>>
       ELSE /\ db.seqProd < MaxProducts
            /\ db' = [db EXCEPT !.products = @ \cup {[id |-> db.seqProd + 1, name |-> name,
                                                      price |-> price]},
                                !.seqProd = @ + 1]
            /\ committed' = Commit(db')
            /\ resp' = Reply("create_product", 201, <<db.seqProd + 1>>)
    /\ UNCHANGED <<wk, sinceClear, faults>>

\* Mutant: the delete cascades to the cart lines that reference the product.
delete_product_cascade(pid) ==
    /\ Arrive
    /\ db' = [db EXCEPT !.products = {p \in @ : p.id # pid},
                        !.cart = {l \in @ : l.product_id # pid}]
    /\ committed' = Commit(db')
    /\ resp' = IF \E p \in db.products : p.id = pid THEN Reply("delete_product", 200, <<>>)
                ELSE Error("delete_product", 404, "Not found")
    /\ UNCHANGED <<wk, sinceClear, faults>>

\* DELETE /api/products/<pid>
delete_product(pid) ==
    /\ Arrive
    /\ db' = [db EXCEPT !.products = {p \in @ : p.id # pid}]
    /\ committed' = Commit(db')
    /\ resp' = IF \E p \in db.products : p.id = pid THEN Reply("delete_product", 200, <<>>)
                ELSE Error("delete_product", 404, "Not found")
    /\ UNCHANGED <<wk, sinceClear, faults>>

\* ------------------------------------------------------------ orders API
\* Bodies sent to POST /api/orders.
OrderInputs ==
    {[amount |-> a, price |-> Num(250), shipping |-> Num(30), total |-> NullV]
        : a \in {NullV, Num(0), Num(-2), TextV}}
      \cup {[amount |-> Num(2), price |-> TextV, shipping |-> Num(30), total |-> Num(999)]}

\* amount = int(data.get('amount') or 1), line 429
OrderAmount(data) == IF Truthy(data.amount) THEN data.amount.v ELSE 1

\* Lines 438-441: the total, or the caller's total when float() raises.
OrderTotal(data) ==
    IF IsNumeric(OrZero(data.price)) /\ IsNumeric(OrZero(data.shipping))
    THEN Num(OrZero(data.price).v * Max(OrderAmount(data), 1) + OrZero(data.shipping).v)
    ELSE OrZero(data.total)

\* The row create_order inserts (line 452): amount as parsed, price and
\* shipping as given.
DirectRow(id, data) ==
    [id |-> id, product |-> "", color |-> "", size |-> "",
     amount |-> OrderAmount(data),
     name |-> "", phone |-> "", gov |-> "", city |-> "", address |-> "",
     price |-> OrZero(data.price), shipping |-> OrZero(data.shipping),
     total |-> OrderTotal(data),
     line |-> 0]

\* POST /api/orders.  int() of a non-numeric amount raises outside every
\* try block: the request ends in a 500 before any statement runs.
create_order(data) ==
    /\ Arrive
    /\ IF Truthy(data.amount) /\ ~IsNumeric(data.amount)
       THEN /\ resp' = Error("create_order", 500, "ValueError")
            /\ UNCHANGED <<db, committed>>
       ELSE /\ db.seqOrder < MaxOrders
            /\ db' = [db EXCEPT !.customers = @ \cup {DirectRow(db.seqOrder + 1, data)},
                                !.seqOrder = @ + 1]
            /\ committed' = Commit(db')
            /\ resp' = Reply("create_order", 201, <<db.seqOrder + 1>>)
    /\ UNCHANGED <<wk, sinceClear, faults>>

\* ------------------------------------------------------ the state machine
Next ==
    \/ \E w \in Workers, c \in CookieInputs, data \in BuyerInputs, ship \in ShipInputs :
           checkout_start(w, c, data, ship)
    \/ \E w \in Workers : checkout_insert(w)
    \/ \E w \in Workers, rolledBack \in BOOLEAN : checkout_insert_fails(w, rolledBack)
    \/ \E w \in Workers : checkout_clear(w)
    \/ \E w \in Workers, rolledBack \in BOOLEAN : checkout_clear_fails(w, rolledBack)
    \/ \E w \in Workers, sent \in BOOLEAN : checkout_respond(w, sent)
    \/ \E c \in CookieInputs, pid \in PidInputs, variant \in VariantInputs, q \in QtyInputs :
           add_to_cart(c, pid, variant, q)
    \/ \E c \in CookieInputs, id \in LineIds : delete_cart_item(c, id)
    \/ \E c \in CookieInputs, id \in LineIds, q \in QtyInputs : update_cart_item(c, id, q)
    \/ \E name \in NameInputs, price \in PriceInputs : create_product(name, price)
    \/ \E pid \in 1..MaxProducts : delete_product(pid)
    \/ \E data \in OrderInputs : create_order(data)

Spec == Init /\ [][Next]_vars

\* ================================================================ claims
\* Vocabulary of the claims, stated on the tables and the responses alone.
LinesOf(d, c)     == {l \in d.cart : l.cart_id = c}
Resolves(d, l)    == \E p \in d.products : p.id = l.product_id
ResolvedOf(d, c)  == {l \in LinesOf(d, c) : Resolves(d, l)}
IdsOf(rows)       == {r.id : r \in rows}
SeqIds(items)     == [i \in 1..Len(items) |-> items[i].id]
Elems(s)          == {s[i] : i \in 1..Len(s)}
Ascending(s)      == \A i \in 1..Len(s), j \in 1..Len(s) : i < j => s[i] < s[j]
FiveFields(data)  == \A f \in BuyerKeys : f \in DOMAIN data /\ data[f] # ""
InFlight(w)       == wk[w].pc # "idle"
\* The worker's call ends in this step.
Returns(w)        == wk[w].pc # "idle" /\ wk'[w].pc = "idle"
\* The worker executes one INSERT of the loop in this step.
Inserts(w)        == wk[w].pc = "insert" /\ Len(wk'[w].created) = Len(wk[w].created) + 1
\* The worker executes the DELETE and the commit in this step.
Clears(w)         == wk[w].pc = "clear" /\ wk'[w].pc = "notify"
\* Every step of checkout_start is such a step: a request arrived, and it was
\* answered as a checkout or a worker took it up.  The claims about
\* checkout_start look at these steps only.
CheckoutArrives   == reqs' = reqs + 1 /\ (resp'.op = "checkout" \/ wk' # wk)
\* float() accepts the shipping and every price the call read
Computable(w)     == /\ wk[w].shipping.k = "num"
                     /\ \A i \in 1..Len(wk[w].items) : wk[w].items[i].product_price.k = "num"

\* Every step of checkout_start is a step the claims look at.
StartIsArrival ==
    [][ \A w \in Workers, c \in CookieInputs, data \in BuyerInputs, ship \in ShipInputs :
          checkout_start(w, c, data, ship) => CheckoutArrives ]_vars

\* ---- C1 ----------------------------------------------------------------
\* A checkout that is accepted reads `want`, the lines it is to turn into
\* orders, in ascending line id; each INSERT adds exactly one order row, made
\* from the next line read, under a fresh id larger than those before; the
\* call ends with 200 and those ids; the clear leaves the identity no line.
C1Reads(w, c, want) ==
    /\ wk'[w].pc = "insert"
    /\ Elems(SeqIds(wk'[w].items)) = IdsOf(want)
    /\ Len(wk'[w].items) = Cardinality(want)
    /\ Ascending(SeqIds(wk'[w].items))

C1Inserts(w) ==
    LET k == Len(wk[w].created) + 1
        new == db'.customers \ db.customers
    IN  /\ Cardinality(new) = 1
        /\ db.customers \subseteq db'.customers
        /\ \A r \in new : /\ r.line = wk[w].items[k].id
                          /\ r.id = wk'[w].created[k]
                          /\ r.id \notin IdsOf(db.customers)
        /\ Ascending(wk'[w].created)

C1Answers(w) ==
    /\ resp'.op = "checkout" /\ resp'.status = 200
    /\ resp'.ids = wk[w].created
    /\ Len(resp'.ids) = Len(wk[w].items)

C1Emptied(w) == LinesOf(db', wk[w].cart) = {} /\ LinesOf(committed', wk[w].cart) = {}

C2AllOrNothing ==
    (\A w \in Workers : wk[w].pc = "idle")
        => \A r \in committed.customers :
               r.line # 0 => r.line \notin IdsOf(committed.cart)

\* ---- C3 ----------------------------------------------------------------
\* C3: a checkout call in which one of the five buyer fields is absent or
\* empty is answered 400 "Missing required fields", and neither the order
\* table nor the cart table changes, whatever the cart holds.
C3Theorem ==
    [][ CheckoutArrives => \A w \in Workers, data \in BuyerInputs : ~FiveFields(data) =>
          \A c \in CookieInputs, ship \in ShipInputs :
            checkout_start(w, c, data, ship)
              => /\ resp'.op = "checkout" /\ resp'.status = 400
                 /\ resp'.error = "Missing required fields"
                 /\ db' = db /\ committed' = committed /\ wk' = wk ]_vars

\* Such a call has been refused while the caller's cart held a line.
C3Witness ==
    /\ resp.op = "checkout" /\ resp.status = 400
    /\ resp.error = "Missing required fields"
    /\ db.cart # {} /\ db.customers = {}

\* ---- C4 ----------------------------------------------------------------
\* C4: a checkout call with valid buyer fields and no cart identity, or
\* with an identity that has no cart line joining an existing product, is
\* answered 400 ("No cart" / "Cart is empty") and changes neither table.
C4Theorem ==
    [][ CheckoutArrives => \A data \in BuyerInputs : FiveFields(data) =>
          \A c \in CookieInputs : (c = NoCookie \/ ResolvedOf(db, c) = {}) =>
            \A w \in Workers, ship \in ShipInputs :
              checkout_start(w, c, data, ship)
                => /\ resp'.op = "checkout" /\ resp'.status = 400
                   /\ resp'.error = IF c = NoCookie THEN "No cart" ELSE "Cart is empty"
                   /\ db' = db /\ committed' = committed /\ wk' = wk ]_vars

\* A checkout has been refused as empty although the tables hold a cart
\* line, one whose product is not in the catalog.
C4Witness ==
    /\ resp.op = "checkout" /\ resp.status = 400 /\ resp.error = "Cart is empty"
    /\ db.cart # {} /\ \A l \in db.cart : ~Resolves(db, l)
    /\ db.customers = {}

\* ---- C5 ----------------------------------------------------------------
\* The lines of the worker's identity that it did not read
Unread(w) == {l \in LinesOf(db, wk[w].cart) : l.id \notin Elems(SeqIds(wk[w].items))}

\* C5 as the spec states it: the clear deletes every line of the identity,
\* and for a line added after the read no order row is ever created.
C5Original ==
    [][ \A w \in Workers : Clears(w) =>
          /\ LinesOf(db', wk[w].cart) = {}
          /\ \A l \in Unread(w) : \A r \in db'.customers : r.line # l.id ]_vars

\* C5 (amended): the clear deletes every cart line of the identity, also
\* the lines added after the read, and that checkout creates no order row
\* for such a line: each of its INSERTs is for a line it read.
C5Theorem ==
    [][ \A w \in Workers :
          /\ Clears(w) => /\ LinesOf(db', wk[w].cart) = {}
                          /\ LinesOf(committed', wk[w].cart) = {}
          /\ Inserts(w) => \A r \in db'.customers \ db.customers :
                              /\ r.line \in Elems(SeqIds(wk[w].items))
                              /\ r.line \notin IdsOf(Unread(w)) ]_vars

\* Line 2 was added after a checkout had read line 1 alone; that checkout
\* has cleared the cart, and no order row was made from line 2.
C5Witness ==
    /\ resp.op = "add" /\ resp.status = 201 /\ resp.ids = <<2>>
    /\ \E w \in Workers : /\ wk[w].pc = "notify"
                          /\ SeqIds(wk[w].items) = <<1>>
                          /\ \A v \in Workers \ {w} : wk[v].pc = "idle"
    /\ db.cart = {} /\ committed.cart = {}
    /\ \E r \in committed.customers : r.line = 1
    /\ \A r \in db.customers : r.line # 2

\* ---- C6 ----------------------------------------------------------------
\* C6: a checkout reads each line's stored quantity and its product's
\* current price; every order row it inserts carries amount = max(stored
\* quantity, 1), that price, the call's shipping cost, and total = price x
\* amount + shipping, so that the N rows of one checkout carry the shipping
\* cost N times.
C6ReadsPrices(w, ship) ==
    /\ ship.k = "num" => wk'[w].shipping = ship
    /\ \A i \in 1..Len(wk'[w].items) :
         LET it == wk'[w].items[i]
         IN  \E l \in db.cart, p \in db.products :
               /\ l.id = it.id /\ p.id = l.product_id
               /\ it.quantity = l.quantity /\ it.product_price = p.price

C6Row(w) ==
    LET it == wk[w].items[Len(wk[w].created) + 1]
    IN  \A r \in db'.customers \ db.customers :
          /\ r.amount = Max(it.quantity, 1)
          /\ r.price = it.product_price
          /\ r.shipping = wk[w].shipping
          /\ r.total = Num(r.price.v * r.amount + r.shipping.v)

RowOf(d, id) == CHOOSE r \in d.customers : r.id = id

C6ShippingPerLine(w) ==
    LET ids == wk[w].created
    IN  SumSeq([i \in 1..Len(ids) |->
                  RowOf(db', ids[i]).total.v
                    - RowOf(db', ids[i]).price.v * RowOf(db', ids[i]).amount])
          = Len(wk[w].items) * wk[w].shipping.v

C6Theorem ==
    [][ /\ CheckoutArrives =>
             \A w \in Workers, c \in Carts, data \in BuyerInputs, ship \in ShipInputs :
               (checkout_start(w, c, data, ship) /\ wk'[w].pc = "insert")
                  => C6ReadsPrices(w, ship)
        /\ \A w \in Workers : /\ Inserts(w) => C6Row(w)
                              /\ (Clears(w) /\ faults = 0) => C6ShippingPerLine(w) ]_vars

\* The spec's numbers: price 250, quantities 2 and 1, shipping 30 give two
\* rows of one checkout with totals 530 and 280.
C6Witness ==
    /\ resp.op = "checkout" /\ resp.status = 200 /\ Len(resp.ids) = 2
    /\ \E r1, r2 \in committed.customers :
         /\ r1.id = resp.ids[1] /\ r2.id = resp.ids[2]
         /\ r1.amount = 2 /\ r1.price = Num(250) /\ r1.shipping = Num(30)
         /\ r1.total = Num(530)
         /\ r2.amount = 1 /\ r2.price = Num(250) /\ r2.shipping = Num(30)
         /\ r2.total = Num(280)

\* ---- C7 ----------------------------------------------------------------
\* C7: after a successful checkout of an identity, with no add_to_cart for
\* it since, a further checkout with valid buyer fields is answered 400
\* "Cart is empty" and leaves the order table (and every table) unchanged.
C7Theorem ==
    [][ CheckoutArrives => \A data \in BuyerInputs : FiveFields(data) =>
          \A c \in sinceClear, w \in Workers, ship \in ShipInputs :
            checkout_start(w, c, data, ship)
              => /\ resp'.op = "checkout" /\ resp'.status = 400
                 /\ resp'.error = "Cart is empty"
                 /\ db' = db /\ committed' = committed /\ wk' = wk ]_vars

\* The second checkout of identity A has been refused; the order table holds
\* the one row the first checkout made from line 1.
C7Witness ==
    /\ resp.op = "checkout" /\ resp.cart = "A" /\ resp.error = "Cart is empty"
    /\ "A" \in sinceClear
    /\ \A w \in Workers : wk[w].pc = "idle"
    /\ Cardinality(committed.customers) = 1
    /\ \E r \in committed.customers : r.line = 1
    /\ db = committed

\* ---- C8 ----------------------------------------------------------------
\* C8: every stored cart line has quantity >= 1, in the open transaction
\* and in the durable table.
C8Theorem == \A l \in db.cart \cup committed.cart : l.quantity >= 1

\* Two lines were added and the third request, an update with quantity <= 0,
\* has deleted line 1 rather than store the value; line 2 holds quantity 1.
C8Witness ==
    /\ resp.op = "update" /\ resp.status = 200
    /\ reqs = 3 /\ db.seqCart = 2 /\ db.customers = {}
    /\ \A w \in Workers : wk[w].pc = "idle"
    /\ \E l \in db.cart : l.id = 2 /\ l.quantity = 1
    /\ \A l \in db.cart : l.id # 1

\* ---- C9 ----------------------------------------------------------------
\* No line has this id and this owner: the id is unknown or another
\* identity's.
NotOwned(c, id) == \A l \in db.cart : ~(l.id = id /\ l.cart_id = c)

C10RowsConsistent ==
    \A r \in db.customers :
        (r.price.k = "num" /\ r.shipping.k = "num" /\ r.total.k = "num")
            => /\ r.amount >= 1
               /\ r.total.v = r.price.v * r.amount + r.shipping.v

\* ---- C11 ---------------------------------------------------------------
\* C11: every POST /api/orders is answered 201 and adds exactly one order
\* row, also when amount, price or shipping is absent or is no number; a
\* value that cannot be read as a number never fails the request and never
\* leaves the order table as it was.
C11AlwaysInserts ==
    [][ \A data \in OrderInputs : create_order(data) =>
          /\ resp'.op = "create_order" /\ resp'.status = 201
          /\ Cardinality(db'.customers) = Cardinality(db.customers) + 1
          /\ db.customers \subseteq db'.customers ]_vars

\* ---- C12 ---------------------------------------------------------------
\* What trimming leaves of a buyer field (of the strings the requests carry,
\* only the string of blanks changes).
Trimmed(s) == IF s = " " THEN "" ELSE s
EmptyWhenTrimmed(data) ==
    \E f \in BuyerKeys : f \notin DOMAIN data \/ Trimmed(data[f]) = ""

\* C12: a checkout call in which one of the five buyer fields is absent,
\* empty or only blanks is refused with status 400 at once: it reads no cart
\* line to turn into an order, creates no order row and deletes no cart line.
C12BlankIsEmpty ==
    [][ CheckoutArrives => \A data \in BuyerInputs : EmptyWhenTrimmed(data) =>
          \A w \in Workers, c \in CookieInputs, ship \in ShipInputs :
            checkout_start(w, c, data, ship)
              => /\ resp'.op = "checkout" /\ resp'.status = 400
                 /\ db' = db /\ committed' = committed /\ wk' = wk ]_vars

\* ---- C13 ---------------------------------------------------------------
\* The rows GET /api/cart returns to identity c
Listed(d, c) == Elems(get_cart(d, c))

\* The row of the line just added is listed, with the variant sent, a
\* quantity >= 1 and the name and price the catalog holds for the product.
C13AddListed(c, pid, variant) ==
    \E it \in Listed(db', c) :
        /\ it.id = resp'.ids[1] /\ it.id \notin IdsOf(db.cart)
        /\ it.cart_id = c /\ it.product_id = pid
        /\ it.size = variant.size /\ it.color = variant.color
        /\ it.quantity >= 1
        /\ \E p \in db'.products :
              p.id = pid /\ it.product_name = p.name /\ it.product_price = p.price

\* The line is gone from the table and from the listing; what else was
\* stored or listed for c still is.
C13UpdateUnlisted(c, id) ==
    /\ \A it \in Listed(db', c) : it.id # id
    /\ Listed(db', c) = {it \in Listed(db, c) : it.id # id}
    /\ LinesOf(db', c) = {l \in LinesOf(db, c) : l.id # id}

\* C13 as the spec states it: every add_to_cart answered 201 is followed by
\* a listing that holds the added line with its product's name and price.
C13Original ==
    [][ (reqs' = reqs + 1 /\ resp'.op = "add" /\ resp'.status = 201) =>
          \A c \in Carts, pid \in PidInputs \ {0}, variant \in VariantInputs, q \in QtyInputs :
            add_to_cart(c, pid, variant, q) => C13AddListed(c, pid, variant) ]_vars

\* C13 (amended): after an add_to_cart answered 201 for a product that is in
\* the catalog, the listing of c holds the added line with the product's
\* current name and price; after update_cart_item(c, id, 0) on an owned
\* line the listing of c holds that line no more and whatever else it held.
C13Theorem ==
    [][ /\ (reqs' = reqs + 1 /\ resp'.op = "add" /\ resp'.status = 201) =>
             \A c \in Carts, pid \in PidInputs \ {0} : (\E p \in db.products : p.id = pid) =>
               \A variant \in VariantInputs, q \in QtyInputs :
                 add_to_cart(c, pid, variant, q) => C13AddListed(c, pid, variant)
        /\ (reqs' = reqs + 1 /\ resp'.op = "update" /\ resp'.status = 200) =>
             \A c \in Carts, id \in LineIds : ~NotOwned(c, id) =>
               (update_cart_item(c, id, Num(0)) => C13UpdateUnlisted(c, id)) ]_vars

\* Identity A added lines 1 and 2 and then set line 1 to a quantity <= 0:
\* the listing of A holds line 2 alone, with the product's name and price.
C13Witness ==
    /\ resp.op = "update" /\ resp.status = 200 /\ reqs = 3 /\ db.seqCart = 2
    /\ \A w \in Workers : wk[w].pc = "idle"
    /\ SeqIds(get_cart(db, "A")) = <<2>>
    /\ get_cart(db, "A")[1].product_name = "shirt"
    /\ get_cart(db, "A")[1].product_price = Num(250)
    /\ LinesOf(db, "A") = {l \in db.cart : l.id = 2}

\* ---- C14 ---------------------------------------------------------------
\* The worker is past its commit and hands the summary to send_discord.
Notifies(w) == wk[w].pc = "notify" /\ wk'[w].pc = "idle"

\* C14: whether the notification is delivered or not (refused, failed,
\* timed out), the checkout is answered 200 with the ids it created, and the
\* order table and the cart table, open and durable, stay as the commit left
\* them: the answer and the tables are determined by the state before the
\* notification alone.
C14Theorem ==
    [][ \A w \in Workers : Notifies(w) => \A sent \in BOOLEAN :
          checkout_respond(w, sent)
            => /\ resp'.op = "checkout" /\ resp'.status = 200 /\ resp'.error = ""
               /\ resp'.ids = wk[w].created /\ resp'.cart = wk[w].cart
               /\ db' = db /\ committed' = committed
               /\ wk' = [wk EXCEPT ![w] = Idle] ]_vars

\* A checkout whose notification was not delivered has answered 200 with
\* the id of its order row, which is durable; the cart is empty.
C14Witness ==
    /\ resp.op = "checkout" /\ resp.status = 200 /\ ~resp.note.sent
    /\ Len(resp.ids) = 1
    /\ \E r \in committed.customers : r.id = resp.ids[1] /\ r.line # 0
    /\ committed.cart = {} /\ db = committed
    /\ \A w \in Workers : wk[w].pc = "idle"

\* ---- C15 ---------------------------------------------------------------
\* The lines of c whose product is not in the catalog
OrphansOf(d, c) == {l \in LinesOf(d, c) : ~Resolves(d, l)}

\* C15: a cart line whose product is not in the catalog when checkout reads
\* the cart produces no order row.  When another line of the identity joins
\* a product, the call reads no orphaned line, each of its INSERTs is for a
\* line it read, and its clear step deletes the orphaned lines with the
\* rest; when every line of the identity is orphaned, the call is answered
\* 400 "Cart is empty" and the lines stay stored.
C15Theorem ==
    [][ /\ CheckoutArrives => \A data \in BuyerInputs : FiveFields(data) =>
             \A c \in Carts : OrphansOf(db, c) # {} =>
               \A w \in Workers, ship \in ShipInputs :
                 checkout_start(w, c, data, ship)
                   => IF ResolvedOf(db, c) = {}
                      THEN /\ resp'.op = "checkout" /\ resp'.status = 400
                           /\ resp'.error = "Cart is empty"
                           /\ wk' = wk
                           /\ LinesOf(db', c) = LinesOf(db, c)
                           /\ LinesOf(committed', c) = LinesOf(committed, c)
                           /\ db'.customers = db.customers
                      ELSE /\ wk'[w].pc = "insert"
                           /\ \A l \in OrphansOf(db, c) :
                                 l.id \notin Elems(SeqIds(wk'[w].items))
        /\ \A w \in Workers :
             /\ Inserts(w) => \A r \in db'.customers \ db.customers :
                                 r.line \in Elems(SeqIds(wk[w].items))
             /\ Clears(w) => /\ OrphansOf(db', wk[w].cart) = {}
                             /\ OrphansOf(committed', wk[w].cart) = {} ]_vars

\* Three requests: identity A added line 1 for a product that is not in the
\* catalog and line 2 for the shirt, and checked out.  The one order row is
\* made from line 2, and line 1 is deleted with it.
C15Witness ==
    /\ reqs = 3 /\ db.seqCart = 2
    /\ resp.op = "checkout" /\ resp.status = 200 /\ resp.cart = "A"
    /\ Len(resp.ids) = 1
    /\ \A r \in committed.customers : r.line = 2 /\ r.id = resp.ids[1]
    /\ committed.customers # {}
    /\ committed.cart = {} /\ db = committed

\* ---- C16 ---------------------------------------------------------------
\* The summary the claim describes, over the lines the call read and over
\* the order rows it made.
SumQuantities(items) == SumSeq([i \in 1..Len(items) |-> items[i].quantity])
SumPrices(items) ==
    SumSeq([i \in 1..Len(items) |-> items[i].product_price.v * items[i].quantity])
SumAmounts(d, ids) == SumSeq([i \in 1..Len(ids) |-> RowOf(d, ids[i]).amount])
SumRows(d, ids) ==
    SumSeq([i \in 1..Len(ids) |-> RowOf(d, ids[i]).price.v * RowOf(d, ids[i]).amount])

\* C16: checkout hands its summary to the notifier only once all its order
\* rows are inserted and its clear is committed, once per call answered 200,
\* with count = sum of the quantities and total = sum of price x quantity
\* plus the shipping cost once; a call that ends otherwise (validation, no
\* cart, empty cart, or an error) hands nothing to the notifier.
C16Theorem ==
    [][ /\ \A w \in Workers :
             /\ (wk'[w].pc = "notify" /\ wk[w].pc # "notify")
                  => /\ Clears(w)
                     /\ Len(wk[w].created) = Len(wk[w].items)
                     /\ committed' = db'
                     /\ LinesOf(committed', wk[w].cart) = {}
             /\ Notifies(w)
                  => /\ resp'.op = "checkout" /\ resp'.status = 200
                     /\ resp'.ids = wk[w].created
                     /\ resp'.note.count = SumQuantities(wk[w].items)
                     /\ resp'.note.total = SumPrices(wk[w].items) + wk[w].shipping.v
                     /\ resp'.note.count >= 1
                     /\ faults = 0 =>
                          /\ resp'.note.count = SumAmounts(db, wk[w].created)
                          /\ resp'.note.total = SumRows(db, wk[w].created) + wk[w].shipping.v
             /\ (Returns(w) /\ ~Notifies(w))
                  => resp'.status = 500 /\ resp'.note = NoNote
        /\ (CheckoutArrives /\ wk' = wk)
             => resp'.status = 400 /\ resp'.note = NoNote
        /\ (resp'.op = "checkout" /\ resp'.status = 200 /\ resp' # resp)
             => \E w \in Workers : Notifies(w) ]_vars

\* The notifier got "items=3, total=780" for a checkout of two lines with
\* quantities 2 and 1, price 250 and shipping 30, whose rows are durable.
C16Witness ==
    /\ resp.op = "checkout" /\ resp.status = 200 /\ resp.note.sent
    /\ resp.note.count = 3 /\ resp.note.total = 780
    /\ Len(resp.ids) = 2
    /\ \A i \in 1..2 : \E r \in committed.customers :
          r.id = resp.ids[i] /\ r.shipping = Num(30)
    /\ committed.cart = {}

\* ---- C17 ---------------------------------------------------------------
\* The cart table and the order table are what they were, as every request
\* reads them; the durable cart table is what it was, and every durable
\* order row is still durable, field by field.
C17Frame ==
    /\ db'.cart = db.cart /\ db'.customers = db.customers
    /\ committed'.cart = committed.cart
    /\ committed.customers \subseteq committed'.customers
    /\ committed'.customers \subseteq db.customers

\* C17: creating or deleting a product changes neither the cart table nor
\* the order table: the cart lines that reference a deleted product stay
\* stored, and every order row keeps the product name, price and total that
\* were copied into it.
C17Theorem ==
    [][ /\ \A pid \in 1..MaxProducts : delete_product(pid) =>
             /\ C17Frame
             /\ \A l \in db.cart : l.product_id = pid => l \in db'.cart /\ l \in committed'.cart
        /\ \A name \in NameInputs, price \in PriceInputs :
             create_product(name, price) => C17Frame ]_vars

\* The shirt has been deleted from the catalog; cart line 2, which references
\* it, is still stored, and so is the order row an earlier checkout made
\* from line 1, with the name and the price copied then.
C17Witness ==
    /\ resp.op = "delete_product" /\ resp.status = 200
    /\ committed.products = {}
    /\ \E l \in committed.cart : l.product_id = 1 /\ l.id = 2
    /\ \E r \in committed.customers :
          /\ r.line = 1 /\ r.product = "shirt" /\ r.price = Num(250)
          /\ r.total = Num(250 * r.amount + r.shipping.v)
    /\ db = committed /\ IdsOf(committed.cart) = {2}
    /\ \A w \in Workers : wk[w].pc = "idle"

\* ---- C18 ---------------------------------------------------------------
\* C18: however two checkout calls of one identity interleave, a cart line
\* is made into at most one durable order row (line ids are never reused:
\* cart_items.id is AUTOINCREMENT).
C18OneRowPerLine ==
    \A r1, r2 \in committed.customers :
        (r1.line # 0 /\ r1.line = r2.line) => r1 = r2

\* ---- C19 ---------------------------------------------------------------
\* The step leaves the cart lines of every identity but c as they were, in
\* the open transaction and durably.
OthersKept(c) ==
    \A b \in Carts \ {c} : /\ LinesOf(db', b) = LinesOf(db, b)
                           /\ LinesOf(committed', b) = LinesOf(committed, b)

\* The identity a step of worker w works for
StepCart(w) == IF wk[w].pc = "idle" THEN wk'[w].cart ELSE wk[w].cart

\* C19: add, update, delete and every step of a checkout for identity c
\* leave the cart lines of every other identity unchanged, however the
\* requests interleave; a checkout for c reads lines of c only, makes its
\* order rows from lines of c only and deletes lines of c only.
C19Theorem ==
    [][ /\ (reqs' = reqs + 1 /\ resp'.op = "add") =>
             \A c \in CookieInputs, pid \in PidInputs, variant \in VariantInputs,
                q \in QtyInputs : add_to_cart(c, pid, variant, q) => OthersKept(c)
        /\ (reqs' = reqs + 1 /\ resp'.op = "delete") =>
             \A c \in CookieInputs, id \in LineIds : delete_cart_item(c, id) => OthersKept(c)
        /\ (reqs' = reqs + 1 /\ resp'.op = "update") =>
             \A c \in CookieInputs, id \in LineIds, q \in QtyInputs :
                update_cart_item(c, id, q) => OthersKept(c)
        /\ (CheckoutArrives /\ wk' = wk) => db'.cart = db.cart /\ committed'.cart = committed.cart
        /\ \A w \in Workers : wk'[w] # wk[w] =>
             /\ OthersKept(StepCart(w))
             /\ \A i \in 1..Len(wk'[w].items) :
                   /\ wk'[w].items[i].cart_id = StepCart(w)
                   /\ wk[w].pc = "idle" =>
                        \E l \in LinesOf(db, StepCart(w)) : l.id = wk'[w].items[i].id
             /\ Inserts(w) => \A r \in db'.customers \ db.customers :
                                 \E i \in 1..Len(wk[w].items) :
                                    /\ wk[w].items[i].id = r.line
                                    /\ wk[w].items[i].cart_id = wk[w].cart
             /\ Clears(w) => /\ db.cart \ db'.cart = LinesOf(db, wk[w].cart)
                             /\ committed.cart \ committed'.cart \subseteq LinesOf(db, wk[w].cart) ]_vars

\* Identity B added line 1, identity A added line 2 and checked out: the
\* call has made its order row from line 2 and cleared A's cart, and line 1
\* is still stored for B.
C19Witness ==
    /\ \E w \in Workers : /\ wk[w].pc = "notify" /\ wk[w].cart = "A"
                          /\ SeqIds(wk[w].items) = <<2>>
    /\ IdsOf(committed.cart) = {1}
    /\ \A l \in committed.cart : l.cart_id = "B"
    /\ committed.customers # {}
    /\ \A r \in committed.customers : r.line = 2
    /\ db = committed

\* ---- C20 ---------------------------------------------------------------
\* C20: a commit that another request issues on the shared connection while
\* a checkout is between its first INSERT and its own commit does not make
\* that checkout's rows final: when a checkout call fails, the durable
\* tables hold none of its order rows beside the cart line the row was made
\* from.
C20NoPartialCommit ==
    [][ \A w \in Workers : (Returns(w) /\ ~Notifies(w)) =>
          \A r \in committed'.customers :
              r.id \in Elems(wk[w].created) => r.line \notin IdsOf(committed'.cart) ]_vars

====
